---- MODULE Spec2Model ----
(***************************************************************************)
(* StorjService (src/unnamed/part_000): an adapter over an S3-compatible   *)
(* object store, with the BucketVersioningController endpoints that        *)
(* delegate to it.  The object store itself is the environment: a          *)
(* versioned bucket holding, in storage order, the versions and delete     *)
(* markers of every key.  So is the client library that turns the store's  *)
(* answers into the entries the service reads.                             *)
(***************************************************************************)
EXTENDS Integers, Sequences, FiniteSets, Bags, TLC

VARIABLES
    env,       \* which of the four configuration values are present
    entryShape,\* the members the client gives the entries of a version
               \* listing: "sdk" or "flagged" (see Meta)
    pc,        \* "new", then "failed", or "ready" (idle) / "done" (answering)
    s3Client,  \* "none" or "client": StorjService.s3Client
    ctorLogs,  \* error-level log entries written by the constructor
    store,     \* the bucket: versions and delete markers, oldest first
    clock,     \* the backend's last-modified clock
    nextVid,   \* the next version id the backend hands out
    inflight,  \* the undeleteObject requests that have listed and chosen
               \* their delete marker and have not yet sent their delete:
               \* a bag of (key, version id of the chosen marker)
    last       \* the operation of the request being served: arguments,
               \* outcome, backend calls, log entries

vars == <<env, entryShape, pc, s3Client, ctorLogs, store, clock, nextVid, inflight, last>>

----------------------------------------------------------------------------
(* Bounds and input sets *)

MaxVid == 3      \* entries (versions + delete markers) ever created

KeyA == <<"a">>
KeyAB == <<"a", "b">>
Keys == {KeyA, KeyAB}                  \* KeyA is a proper prefix of KeyAB
Callers == {"c1", "c2"}                \* clients, one request each at a time
Bodies == {<<7>>, <<1, 2>>}            \* file contents, as byte sequences
BackendErrors == {"NetworkError", "AccessDenied"}
ConfigKeys == {"STORJ_ACCESS_KEY", "STORJ_SECRET_KEY", "STORJ_ENDPOINT", "STORJ_BUCKET"}
Statuses == {"Enabled", "Suspended", "enabled", "undefined"}
EntryShapes == {"sdk", "flagged"}

NoVid == 0       \* an absent VersionId
NoTime == 0 - 1  \* an absent LastModified
NoError == "none"
NoDeleteMarkerFound == "No delete marker found for the object"
ConfigIncomplete == "Storj configuration is incomplete"
InvalidBucket == "InvalidBucket"
NoSuchKey == "NoSuchKey"
StreamError == "StreamError"

----------------------------------------------------------------------------
(* Sequence helpers *)

Range(s) == {s[i] : i \in 1..Len(s)}

Front(s) == SubSeq(s, 1, Len(s) - 1)

RemoveAt(s, i) == SubSeq(s, 1, i - 1) \o SubSeq(s, i + 1, Len(s))

\* every ordering of the elements of s
RECURSIVE Perms(_)
Perms(s) ==
    IF s = <<>> THEN {<<>>}
    ELSE UNION {{<<s[i]>> \o p : p \in Perms(RemoveAt(s, i))} : i \in 1..Len(s)}

\* the orders in which the backend may return a list: any
ResponseOrders(s) == Perms(s)

\* key.startsWith(prefix), the backend's Prefix filter
StartsWith(key, prefix) ==
    /\ Len(prefix) <= Len(key)
    /\ SubSeq(key, 1, Len(prefix)) = prefix

\* (mutant) the list handed back in reverse order
ReversedOrEmpty(opt) ==
    IF opt = {} THEN <<>>
    ELSE LET l == CHOOSE x \in opt : TRUE
         IN [i \in 1..Len(l) |-> l[Len(l) + 1 - i]]

\* response.X || []  for an optional list ({} when absent, {list} when present)
OrEmpty(opt) == IF opt = {} THEN <<>> ELSE CHOOSE l \in opt : TRUE

\* the SDK leaves a list field out of the response when it has no element
Optional(list) == IF list = <<>> THEN {} ELSE {list}

----------------------------------------------------------------------------
(* The backend: a versioned bucket *)

\* What a version listing shows of a stored entry.  The entries are built by
\* the client (@aws-sdk/client-s3), which is not part of the repository.  Its
\* ObjectVersion and DeleteMarkerEntry carry Key, VersionId, IsLatest,
\* LastModified and Owner, and no IsDeleteMarker member: whether an entry is
\* a delete marker shows only in the list of the response that holds it.
\* This is the shape "sdk".  undeleteObject reads a member IsDeleteMarker of
\* the entries; "flagged" is a client whose entries carry it.
Meta(e) ==
    IF entryShape = "flagged"
    THEN [Key |-> e.Key, VersionId |-> e.VersionId,
          LastModified |-> e.LastModified, IsDeleteMarker |-> e.IsDeleteMarker]
    ELSE [Key |-> e.Key, VersionId |-> e.VersionId,
          LastModified |-> e.LastModified]

RECURSIVE MapMeta(_)
MapMeta(s) == IF s = <<>> THEN <<>> ELSE <<Meta(Head(s))>> \o MapMeta(Tail(s))

EntriesOf(bucket, key) == SelectSeq(bucket, LAMBDA e : e.Key = key)

\* the entry an unversioned GetObject resolves to: the last one stored
HasCurrent(bucket, key) == EntriesOf(bucket, key) # <<>>
Current(bucket, key) ==
    LET es == EntriesOf(bucket, key) IN es[Len(es)]

Readable(bucket, key) ==
    HasCurrent(bucket, key) /\ ~Current(bucket, key).IsDeleteMarker

\* a backend call fails when the bucket name is absent, and may fail anyway
SendOutcomes ==
    IF env["STORJ_BUCKET"] THEN {"ok"} \cup BackendErrors ELSE {InvalidBucket}

\* PutObject / DeleteObject without a version: the entry the backend stores
NewEntry(key, t, isMarker, body) ==
    [Key |-> key, VersionId |-> nextVid, LastModified |-> t,
     IsDeleteMarker |-> isMarker, Body |-> body]

\* the timestamps the backend can stamp now: time stands still or moves on
Stamps == {t \in {clock, clock + 1} : t >= 1}

\* ListObjectVersions with Prefix: the two lists of the response
VersionLists(bucket, prefix) ==
    ResponseOrders(MapMeta(SelectSeq(bucket,
        LAMBDA e : StartsWith(e.Key, prefix) /\ ~e.IsDeleteMarker)))
MarkerLists(bucket, prefix) ==
    ResponseOrders(MapMeta(SelectSeq(bucket,
        LAMBDA e : StartsWith(e.Key, prefix) /\ e.IsDeleteMarker)))

\* DeleteObject with a VersionId: the bucket without that entry
WithoutVersion(bucket, key, vid) ==
    SelectSeq(bucket, LAMBDA e : ~(e.Key = key /\ e.VersionId = vid))

DeleteOutput(bucket, key, vid) ==
    [VersionId |-> vid,
     DeleteMarker |-> \E e \in Range(bucket) :
                        e.Key = key /\ e.VersionId = vid /\ e.IsDeleteMarker]

\* the ways the backend may cut a body into the chunks of its response stream
RECURSIVE Chunkings(_)
Chunkings(body) ==
    IF body = <<>> THEN {<<>>}
    ELSE UNION {{<<SubSeq(body, 1, i)>> \o c :
                    c \in Chunkings(SubSeq(body, i + 1, Len(body)))} :
                i \in 1..Len(body)}

----------------------------------------------------------------------------
(* Pure helpers of StorjService *)

\* (mutant) the chunks joined newest first
RECURSIVE ConcatReversed(_)
ConcatReversed(chunks) ==
    IF chunks = <<>> THEN <<>> ELSE ConcatReversed(Tail(chunks)) \o Head(chunks)

\* Buffer.concat(chunks)
RECURSIVE BufferConcat(_)
BufferConcat(chunks) ==
    IF chunks = <<>> THEN <<>> ELSE Head(chunks) \o BufferConcat(Tail(chunks))

\* (mutant) any status that is present counts as enabled
IsEnabledLoose(status) == status # "undefined"

\* response.Status === 'Enabled'
IsEnabled(status) == status = "Enabled"

\* (mutant) an absent date counts as later than every date
GetTimeOrLatest(a) == IF a.LastModified = NoTime THEN 1000 ELSE a.LastModified

\* a.LastModified ? new Date(a.LastModified).getTime() : 0
GetTimeOrZero(a) == IF a.LastModified = NoTime THEN 0 ELSE a.LastModified

\* the comparator of listObjectVersionsForKey: dateB - dateA
CompareVersions(a, b) == GetTimeOrZero(b) - GetTimeOrZero(a)

\* the comparator of undeleteObject: getTime() of an absent date is NaN, and
\* a comparator result of NaN counts as +0
CompareMarkers(a, b) ==
    IF a.LastModified = NoTime \/ b.LastModified = NoTime THEN 0
    ELSE b.LastModified - a.LastModified

Compare(which, a, b) ==
    IF which = "versions" THEN CompareVersions(a, b) ELSE CompareMarkers(a, b)

\* Array.prototype.sort(comparator) as the runtime (Node.js, V8) performs it
\* on an array of fewer than 64 elements: the leading run is found, reversed
\* when it descends, and the rest is added by binary insertion.  With the
\* comparator of listObjectVersionsForKey this is a stable sort; with the
\* comparator of undeleteObject, which is 0 whenever a date is absent, the
\* result depends on these steps.

\* the last index of the run that starts at s[1]
RECURSIVE RunEnd(_, _, _, _)
RunEnd(s, which, isDescending, idx) ==
    IF idx > Len(s) THEN idx - 1
    ELSE LET order == Compare(which, s[idx], s[idx - 1])
         IN IF (isDescending /\ order >= 0) \/ (~isDescending /\ order < 0)
            THEN idx - 1
            ELSE RunEnd(s, which, isDescending, idx + 1)

ReverseRange(s, n) ==
    [i \in 1..Len(s) |-> IF i <= n THEN s[n + 1 - i] ELSE s[i]]

\* the length of the leading run of s (Len(s) >= 2), and s with it ascending
CountAndMakeRun(s, which) ==
    LET isDescending == Compare(which, s[2], s[1]) < 0
        runLength == RunEnd(s, which, isDescending, 3)
    IN [runLength |-> runLength,
        array |-> IF isDescending THEN ReverseRange(s, runLength) ELSE s]

\* where pivot goes among arr[left .. right - 1]
RECURSIVE InsertionPoint(_, _, _, _, _)
InsertionPoint(arr, pivot, left, right, which) ==
    IF left >= right THEN left
    ELSE LET mid == left + ((right - left) \div 2)
         IN IF Compare(which, pivot, arr[mid]) < 0
            THEN InsertionPoint(arr, pivot, left, mid, which)
            ELSE InsertionPoint(arr, pivot, mid + 1, right, which)

\* arr[1 .. start - 1] is in order; the elements from start on are inserted
RECURSIVE BinaryInsertionSort(_, _, _)
BinaryInsertionSort(arr, start, which) ==
    IF start > Len(arr) THEN arr
    ELSE LET pivot == arr[start]
             left == InsertionPoint(arr, pivot, 1, start, which)
         IN BinaryInsertionSort(
                SubSeq(arr, 1, left - 1) \o <<pivot>>
                    \o SubSeq(arr, left, start - 1)
                    \o SubSeq(arr, start + 1, Len(arr)),
                start + 1, which)

ArraySort(s, which) ==
    IF Len(s) < 2 THEN s
    ELSE LET run == CountAndMakeRun(s, which)
         IN BinaryInsertionSort(run.array, run.runLength + 1, which)

\* [...(response.Versions || []), ...(response.DeleteMarkers || [])].sort(...)
AllVersions(versions, deleteMarkers) ==
    ArraySort(OrEmpty(versions) \o OrEmpty(deleteMarkers), "versions")

\* (mutant) the filter without the IsDeleteMarker test
EntriesWithKey(versions, key) == SelectSeq(versions, LAMBDA v : v.Key = key)

\* v.IsDeleteMarker read as a condition: a member that is absent reads as
\* undefined, which counts as false
IsDeleteMarker(v) == "IsDeleteMarker" \in DOMAIN v /\ v.IsDeleteMarker

\* (mutant) the filter with || in the place of &&
FlaggedOrOfKey(versions, key) ==
    SelectSeq(versions, LAMBDA v : IsDeleteMarker(v) \/ v.Key = key)

\* (mutant) no filter: every listed entry counts as a delete marker of key
AllListed(versions, key) == versions

\* versions.filter(v => v.IsDeleteMarker && v.Key === key)
DeleteMarkersOf(versions, key) ==
    SelectSeq(versions, LAMBDA v : IsDeleteMarker(v) /\ v.Key = key)

\* (mutant) the last element of the sorted markers instead of the first
OldestDeleteMarker(deleteMarkers) ==
    ArraySort(deleteMarkers, "markers")[Len(deleteMarkers)]

\* deleteMarkers.sort(...)[0]
LatestDeleteMarker(deleteMarkers) == ArraySort(deleteMarkers, "markers")[1]

\* (mutant) the catch block throws a new error of its own
ThrowWrapped(error) == "InternalServerError"

\* catch (error) { ...; throw error; }
Rethrow(error) == error

----------------------------------------------------------------------------
(* The record of an operation *)

Call(cmd, key, vid, outcome) ==
    [cmd |-> cmd, Key |-> key, VersionId |-> vid, outcome |-> outcome]

NoOutput == [VersionId |-> NoVid, DeleteMarker |-> FALSE]

\* the list fields of a backend response, each absent ({}) or present
NoResponse == [Contents |-> {}, Versions |-> {}, DeleteMarkers |-> {}]

Blank(op, key, vid) ==
    [op |-> op, key |-> key, versionId |-> vid, file |-> <<>>,
     outcome |-> "threw", error |-> NoError,
     entries |-> <<>>, chunks |-> <<>>, buffer |-> <<>>,
     status |-> "none", enabled |-> FALSE, reply |-> [enabled |-> FALSE],
     output |-> NoOutput, response |-> NoResponse,
     calls |-> <<>>, errorLogs |-> 0, warnLogs |-> 0]

Init ==
    /\ env \in [ConfigKeys -> BOOLEAN]
    /\ entryShape \in EntryShapes
    /\ pc = "new"
    /\ s3Client = "none"
    /\ ctorLogs = 0
    /\ store = <<>>
    /\ clock = 0
    /\ nextVid = 1
    /\ inflight = EmptyBag
    /\ last = Blank("none", <<>>, NoVid)

----------------------------------------------------------------------------
(* Operations *)

\* !accessKey || !secretKey || !endpoint
Incomplete(e) ==
    ~e["STORJ_ACCESS_KEY"] \/ ~e["STORJ_SECRET_KEY"] \/ ~e["STORJ_ENDPOINT"]

Constructor ==
    /\ pc = "new"
    /\ IF Incomplete(env)
       THEN /\ pc' = "failed"
            /\ ctorLogs' = ctorLogs + 1
            /\ s3Client' = "none"
       ELSE /\ pc' = "ready"
            /\ ctorLogs' = ctorLogs
            /\ s3Client' = "client"
    /\ UNCHANGED <<env, entryShape, inflight, store, clock, nextVid, last>>

\* the controller method returns: the request is answered and nothing of it
\* is kept
Respond ==
    /\ pc = "done"
    /\ pc' = "ready"
    /\ last' = Blank("none", <<>>, NoVid)
    /\ UNCHANGED <<env, entryShape, inflight, s3Client, ctorLogs, store, clock, nextVid>>

UploadFile(file, key) ==
    /\ pc = "ready"
    /\ \E r \in SendOutcomes :
        LET b == [Blank("uploadFile", key, NoVid) EXCEPT
                    !.file = file,
                    !.calls = <<Call("PutObject", key, NoVid, r)>>]
        IN IF r = "ok"
           THEN /\ nextVid <= MaxVid
                /\ \E t \in Stamps :
                    /\ store' = Append(store, NewEntry(key, t, FALSE, file))
                    /\ clock' = t
                /\ nextVid' = nextVid + 1
                /\ last' = [b EXCEPT !.outcome = "returned",
                                !.output = [VersionId |-> nextVid,
                                            DeleteMarker |-> FALSE]]
           ELSE /\ last' = [b EXCEPT !.error = Rethrow(r), !.errorLogs = 1]
                /\ UNCHANGED <<store, clock, nextVid>>
    /\ pc' = "done"
    /\ UNCHANGED <<env, entryShape, inflight, s3Client, ctorLogs>>

\* GetObjectCommand, then streamToBuffer(response.Body): shared by the four
\* download methods (vid = NoVid for the unversioned ones)
GetObject(op, key, vid) ==
    /\ pc = "ready"
    /\ \E r \in SendOutcomes :
        LET hits == SelectSeq(store, LAMBDA e :
                        e.Key = key /\ e.VersionId = vid /\ ~e.IsDeleteMarker)
            found == IF vid = NoVid THEN Readable(store, key) ELSE hits # <<>>
            body == IF vid = NoVid THEN Current(store, key).Body ELSE hits[1].Body
            b == Blank(op, key, vid)
            threw(e) == [b EXCEPT !.calls = <<Call("GetObject", key, vid, e)>>,
                            !.error = Rethrow(e), !.errorLogs = 1]
        IN IF r # "ok" THEN last' = threw(r)
           ELSE IF ~found THEN last' = threw(NoSuchKey)
           ELSE \/ last' = threw(StreamError)
                \/ \E chunks \in Chunkings(body) :
                    last' = [b EXCEPT
                                !.calls = <<Call("GetObject", key, vid, "ok")>>,
                                !.outcome = "returned",
                                !.chunks = chunks,
                                !.buffer = BufferConcat(chunks)]
    /\ pc' = "done"
    /\ UNCHANGED <<env, entryShape, inflight, s3Client, ctorLogs, store, clock, nextVid>>

DownloadFile(key) == GetObject("downloadFile", key, NoVid)

GetObjectVersion(key, versionId) == GetObject("getObjectVersion", key, versionId)

GetCurrentObjectVersion(key) == GetObject("getCurrentObjectVersion", key, NoVid)

GetObjectVersionWithMetadata(key, versionId) ==
    GetObject("getObjectVersionWithMetadata", key, versionId)

\* what an object listing shows of a key's current version
ObjectOf(e) == [Key |-> e.Key, LastModified |-> e.LastModified]

RECURSIVE MapObjectOf(_)
MapObjectOf(s) ==
    IF s = <<>> THEN <<>> ELSE <<ObjectOf(Head(s))>> \o MapObjectOf(Tail(s))

\* ListObjectsV2: the keys whose current entry is a version
Contents(bucket) ==
    LET show(e) == e.Key \in Keys /\ Readable(bucket, e.Key)
                   /\ e.VersionId = Current(bucket, e.Key).VersionId
    IN MapObjectOf(SelectSeq(bucket, show))

ListObjects ==
    /\ pc = "ready"
    /\ \E r \in SendOutcomes :
        LET b == [Blank("listObjects", <<>>, NoVid) EXCEPT
                    !.calls = <<Call("ListObjectsV2", <<>>, NoVid, r)>>]
        IN IF r # "ok"
           THEN last' = [b EXCEPT !.error = Rethrow(r), !.errorLogs = 1]
           ELSE \E contents \in ResponseOrders(Contents(store)) :
                LET response == [NoResponse EXCEPT
                                    !.Contents = Optional(contents)]
                IN last' = [b EXCEPT !.outcome = "returned",
                                !.response = response,
                                !.entries = OrEmpty(response.Contents)]
    /\ pc' = "done"
    /\ UNCHANGED <<env, entryShape, inflight, s3Client, ctorLogs, store, clock, nextVid>>

ListObjectVersions ==
    /\ pc = "ready"
    /\ \E r \in SendOutcomes :
        LET b == [Blank("listObjectVersions", <<>>, NoVid) EXCEPT
                    !.calls = <<Call("ListObjectVersions", <<>>, NoVid, r)>>]
        IN IF r # "ok"
           THEN last' = [b EXCEPT !.error = Rethrow(r), !.errorLogs = 1]
           ELSE \E versions \in VersionLists(store, <<>>),
                   deleteMarkers \in MarkerLists(store, <<>>) :
                LET response == [NoResponse EXCEPT
                                    !.Versions = Optional(versions),
                                    !.DeleteMarkers = Optional(deleteMarkers)]
                IN last' = [b EXCEPT !.outcome = "returned",
                                !.response = response,
                                !.entries = OrEmpty(response.Versions)]
    /\ pc' = "done"
    /\ UNCHANGED <<env, entryShape, inflight, s3Client, ctorLogs, store, clock, nextVid>>

DeleteObjectVersion(key, versionId) ==
    /\ pc = "ready"
    /\ \E r \in SendOutcomes :
        LET b == [Blank("deleteObjectVersion", key, versionId) EXCEPT
                    !.calls = <<Call("DeleteObject", key, versionId, r)>>]
        IN IF r = "ok"
           THEN /\ store' = WithoutVersion(store, key, versionId)
                /\ last' = [b EXCEPT !.outcome = "returned",
                                !.output = DeleteOutput(store, key, versionId)]
           ELSE /\ last' = [b EXCEPT !.error = Rethrow(r), !.errorLogs = 1]
                /\ store' = store
    /\ pc' = "done"
    /\ UNCHANGED <<env, entryShape, inflight, s3Client, ctorLogs, clock, nextVid>>

\* the controller's GET status: { enabled }
GetVersioningStatus(enabled) == [enabled |-> enabled]

IsVersioningEnabled ==
    /\ pc = "ready"
    /\ \E r \in SendOutcomes :
        LET b == [Blank("isVersioningEnabled", <<>>, NoVid) EXCEPT
                    !.calls = <<Call("GetBucketVersioning", <<>>, NoVid, r)>>]
        IN IF r # "ok"
           THEN last' = [b EXCEPT !.error = Rethrow(r), !.errorLogs = 1]
           ELSE \E status \in Statuses :
                last' = [b EXCEPT !.outcome = "returned",
                            !.status = status,
                            !.enabled = IsEnabled(status),
                            !.reply = GetVersioningStatus(IsEnabled(status))]
    /\ pc' = "done"
    /\ UNCHANGED <<env, entryShape, inflight, s3Client, ctorLogs, store, clock, nextVid>>

ListObjectVersionsForKey(key) ==
    /\ pc = "ready"
    /\ \E r \in SendOutcomes :
        LET b == [Blank("listObjectVersionsForKey", key, NoVid) EXCEPT
                    !.calls = <<Call("ListObjectVersions", key, NoVid, r)>>]
        IN IF r # "ok"
           THEN last' = [b EXCEPT !.error = Rethrow(r), !.errorLogs = 1]
           ELSE \E versions \in VersionLists(store, key),
                   deleteMarkers \in MarkerLists(store, key) :
                LET response == [NoResponse EXCEPT
                                    !.Versions = Optional(versions),
                                    !.DeleteMarkers = Optional(deleteMarkers)]
                IN last' = [b EXCEPT !.outcome = "returned",
                                !.response = response,
                                !.entries = AllVersions(response.Versions,
                                                        response.DeleteMarkers)]
    /\ pc' = "done"
    /\ UNCHANGED <<env, entryShape, inflight, s3Client, ctorLogs, store, clock, nextVid>>

\* (mutant) the command names the key's current entry as VersionId
CurrentEntryInput(key) ==
    [Key |-> key,
     VersionId |-> IF HasCurrent(store, key)
                   THEN Current(store, key).VersionId ELSE NoVid]

\* new DeleteObjectCommand({ Bucket, Key: key }): no VersionId
MarkerDeleteInput(key) == [Key |-> key, VersionId |-> NoVid]

\* DeleteObject without a VersionId stores a delete marker and answers its
\* version id; with one, it removes that entry
DeleteObjectWithMarker(key) ==
    /\ pc = "ready"
    /\ \E r \in SendOutcomes :
        LET input == MarkerDeleteInput(key)
            b == [Blank("deleteObjectWithMarker", key, NoVid) EXCEPT
                    !.calls = <<Call("DeleteObject", input.Key,
                                     input.VersionId, r)>>]
        IN IF r # "ok"
           THEN /\ last' = [b EXCEPT !.error = Rethrow(r), !.errorLogs = 1]
                /\ UNCHANGED <<store, clock, nextVid>>
           ELSE IF input.VersionId = NoVid
           THEN /\ nextVid <= MaxVid
                /\ \E t \in Stamps :
                    /\ store' = Append(store,
                                       NewEntry(input.Key, t, TRUE, <<>>))
                    /\ clock' = t
                /\ nextVid' = nextVid + 1
                /\ last' = [b EXCEPT !.outcome = "returned",
                                !.output = [VersionId |-> nextVid,
                                            DeleteMarker |-> TRUE]]
           ELSE /\ store' = WithoutVersion(store, input.Key, input.VersionId)
                /\ last' = [b EXCEPT !.outcome = "returned",
                                !.output = DeleteOutput(store, input.Key,
                                                        input.VersionId)]
                /\ UNCHANGED <<clock, nextVid>>
    /\ pc' = "done"
    /\ UNCHANGED <<env, entryShape, inflight, s3Client, ctorLogs>>

\* what a suspended undeleteObject goes on with
Suspended(key, versionId) == [key |-> key, versionId |-> versionId]

\* undeleteObject up to the await of its delete call (lines 313-325): the
\* listing (with its own catch), the filter, the choice of the marker.  A
\* failed listing and a listing without delete marker end the request; else
\* the request is suspended until its DeleteObject is sent, and the requests
\* of other callers run in between.
UndeleteObject(key) ==
    /\ pc = "ready"
    /\ \E r1 \in SendOutcomes :
        LET listCall == Call("ListObjectVersions", key, NoVid, r1)
            b == Blank("undeleteObject", key, NoVid)
        IN IF r1 # "ok"
           THEN \* logged by listObjectVersionsForKey, then by undeleteObject
                /\ last' = [b EXCEPT !.calls = <<listCall>>,
                                !.error = Rethrow(Rethrow(r1)),
                                !.errorLogs = 2]
                /\ pc' = "done"
                /\ inflight' = inflight
           ELSE \E vs \in VersionLists(store, key), ms \in MarkerLists(store, key) :
                LET versions == AllVersions(Optional(vs), Optional(ms))
                    deleteMarkers == DeleteMarkersOf(versions, key)
                    latestDeleteMarker == LatestDeleteMarker(deleteMarkers)
                IN IF Len(deleteMarkers) = 0
                   THEN /\ last' = [b EXCEPT !.entries = versions,
                                        !.calls = <<listCall>>,
                                        !.error = Rethrow(NoDeleteMarkerFound),
                                        !.warnLogs = 1, !.errorLogs = 1]
                        /\ pc' = "done"
                        /\ inflight' = inflight
                   ELSE /\ BagCardinality(inflight) < Cardinality(Callers)
                        /\ inflight' = inflight (+) SetToBag({
                                Suspended(key, latestDeleteMarker.VersionId)})
                        /\ UNCHANGED <<pc, last>>
    /\ UNCHANGED <<env, entryShape, s3Client, ctorLogs, store, clock, nextVid>>

\* the rest of undeleteObject (lines 325-331) for a suspended request:
\* deleteObjectVersion(key, latestDeleteMarker.VersionId), with its own
\* catch, on the bucket as it is by now
UndeleteObjectDelete(key, versionId) ==
    /\ pc = "ready"
    /\ BagIn(Suspended(key, versionId), inflight)
    /\ \E r2 \in SendOutcomes :
        LET called == [Blank("undeleteObject", key, versionId) EXCEPT
                        !.calls = <<Call("ListObjectVersions", key, NoVid, "ok"),
                                    Call("DeleteObject", key, versionId, r2)>>]
        IN IF r2 # "ok"
           THEN \* logged by deleteObjectVersion, then by undeleteObject
                /\ last' = [called EXCEPT !.error = Rethrow(Rethrow(r2)),
                                          !.errorLogs = 2]
                /\ store' = store
           ELSE /\ store' = WithoutVersion(store, key, versionId)
                /\ last' = [called EXCEPT
                                !.outcome = "returned",
                                !.output = DeleteOutput(store, key, versionId)]
    /\ inflight' = inflight (-) SetToBag({Suspended(key, versionId)})
    /\ pc' = "done"
    /\ UNCHANGED <<env, entryShape, s3Client, ctorLogs, clock, nextVid>>

VersionIds == 1..MaxVid     \* the version ids a request may name

Next ==
    \/ Constructor
    \/ Respond
    \/ \E file \in Bodies, key \in Keys : UploadFile(file, key)
    \/ \E key \in Keys : DownloadFile(key)
    \/ ListObjects
    \/ ListObjectVersions
    \/ \E key \in Keys, versionId \in VersionIds : GetObjectVersion(key, versionId)
    \/ \E key \in Keys, versionId \in VersionIds : DeleteObjectVersion(key, versionId)
    \/ IsVersioningEnabled
    \/ \E key \in Keys : ListObjectVersionsForKey(key)
    \/ \E key \in Keys : GetCurrentObjectVersion(key)
    \/ \E key \in Keys, versionId \in VersionIds :
            GetObjectVersionWithMetadata(key, versionId)
    \/ \E key \in Keys : DeleteObjectWithMarker(key)
    \/ \E key \in Keys : UndeleteObject(key)
    \/ \E key \in Keys, versionId \in VersionIds :
            UndeleteObjectDelete(key, versionId)

Spec == Init /\ [][Next]_vars

----------------------------------------------------------------------------
(* The service on the entries of @aws-sdk/client-s3 *)

InitSdk == Init /\ entryShape = "sdk"

\* on these entries no undeleteObject gets as far as its delete call
NextSdk ==
    \/ Constructor
    \/ Respond
    \/ \E file \in Bodies, key \in Keys : UploadFile(file, key)
    \/ \E key \in Keys : DownloadFile(key)
    \/ ListObjects
    \/ ListObjectVersions
    \/ \E key \in Keys, versionId \in VersionIds : GetObjectVersion(key, versionId)
    \/ \E key \in Keys, versionId \in VersionIds : DeleteObjectVersion(key, versionId)
    \/ IsVersioningEnabled
    \/ \E key \in Keys : ListObjectVersionsForKey(key)
    \/ \E key \in Keys : GetCurrentObjectVersion(key)
    \/ \E key \in Keys, versionId \in VersionIds :
            GetObjectVersionWithMetadata(key, versionId)
    \/ \E key \in Keys : DeleteObjectWithMarker(key)
    \/ \E key \in Keys : UndeleteObject(key)

SpecSdk == InitSdk /\ [][NextSdk]_vars

----------------------------------------------------------------------------
(* The listing of a key over buckets whose entries may lack a date *)

MaxListed == 3   \* entries in such a bucket

\* LastModified is optional in a listed entry; 0 is the date of the epoch
SortTimes == {NoTime, 0, 1, 2}

\* the buckets of at most MaxListed entries of KeyA, version ids 1, 2, ...
SortBuckets ==
    UNION {{[i \in 1..n |->
                [Key |-> KeyA, VersionId |-> i, LastModified |-> ts[i],
                 IsDeleteMarker |-> mk[i], Body |-> <<>>]] :
                ts \in [1..n -> SortTimes], mk \in [1..n -> BOOLEAN]} :
           n \in 0..MaxListed}

InitSort ==
    /\ env = [k \in ConfigKeys |-> TRUE]
    /\ entryShape \in EntryShapes
    /\ pc = "ready"
    /\ s3Client = "client"
    /\ ctorLogs = 0
    /\ store \in SortBuckets
    /\ clock = 2
    /\ nextVid = Len(store) + 1
    /\ inflight = EmptyBag
    /\ last = Blank("none", <<>>, NoVid)

NextSort ==
    \/ \E key \in Keys : ListObjectVersionsForKey(key)
    \/ Respond

SpecSort == InitSort /\ [][NextSort]_vars

----------------------------------------------------------------------------
(* Vocabulary of the properties *)

Returned == last.outcome = "returned"
Threw == last.outcome = "threw"

\* this step is the operation op on key (every operation records itself)
StepOf(op, key) == last'.op = op /\ last'.key = key /\ vars' # vars

\* this step is the listing of an undeleteObject(key) that chose the delete
\* marker with version id v and now awaits its delete call
Chose(key, v) == inflight' = inflight (+) SetToBag({Suspended(key, v)})

\* this step ends an undeleteObject(key) at its listing / at its delete
ListingEnds(key) == StepOf("undeleteObject", key) /\ Len(last'.calls) = 1
DeleteEnds(key) == StepOf("undeleteObject", key) /\ Len(last'.calls) = 2

\* the bucket holds a delete marker of exactly key with version id v
IsMarkerOf(bucket, key, v) ==
    \E e \in Range(bucket) : e.Key = key /\ e.VersionId = v /\ e.IsDeleteMarker

MarkersOf(bucket, key) ==
    SelectSeq(bucket, LAMBDA e : e.Key = key /\ e.IsDeleteMarker)

CurrentIsMarker(bucket, key) ==
    HasCurrent(bucket, key) /\ Current(bucket, key).IsDeleteMarker

\* the greatest last-modified among the entries of key
MaxTime(bucket, key) ==
    LET ts == {e.LastModified : e \in Range(EntriesOf(bucket, key))}
    IN CHOOSE t \in ts : \A u \in ts : u <= t

\* what listObjectVersionsForKey(key) can return on this bucket
ListingsOf(bucket, key) ==
    {AllVersions(Optional(vs), Optional(ms)) :
        vs \in VersionLists(bucket, key), ms \in MarkerLists(bucket, key)}

Descending(entries) ==
    \A i \in 1..Len(entries), j \in 1..Len(entries) :
        i < j => GetTimeOrZero(entries[i]) >= GetTimeOrZero(entries[j])

----------------------------------------------------------------------------
(* Properties *)

\* C1: listObjectVersionsForKey(key) returns exactly the N versions and M
\* delete markers of key, no entry of another key (such as one that only
\* starts with key), in descending order of last-modified.
C1_ListExactlyKeyEntries ==
    (last.op = "listObjectVersionsForKey" /\ Returned) =>
        /\ Len(last.entries) = Len(EntriesOf(store, last.key))
        /\ Range(last.entries) = {Meta(e) : e \in Range(EntriesOf(store, last.key))}
        /\ Descending(last.entries)

\* C2: undeleteObject(key) that lists a key whose current entry is a delete
\* marker goes on to delete it: it chooses that marker, which carries the
\* greatest last-modified of the key; its delete call, when it succeeds,
\* returns the backend's delete result and removes exactly that one entry,
\* and a listing of the key afterwards lacks that marker and holds every
\* other entry; an undeleteObject(key) whose listing succeeds ends there,
\* with the no-delete-marker error, only when the key's current entry is
\* not a delete marker, and always when no delete marker of key is stored.
C2_UndeleteRemovesLatestMarker ==
    [][\A k \in Keys :
        /\ \A v \in VersionIds :
            (Chose(k, v) /\ CurrentIsMarker(store, k)) =>
                /\ v = Current(store, k).VersionId
                /\ Current(store, k).LastModified = MaxTime(store, k)
        /\ (DeleteEnds(k) /\ last'.calls[2].outcome = "ok") =>
            /\ last'.outcome = "returned"
            /\ last'.output.VersionId = last'.versionId
            /\ ~IsMarkerOf(store', k, last'.versionId)
            /\ store' = SelectSeq(store,
                    LAMBDA e : ~(e.Key = k /\ e.VersionId = last'.versionId))
        /\ (DeleteEnds(k) /\ last'.calls[2].outcome = "ok"
                /\ IsMarkerOf(store, k, last'.versionId)) =>
            /\ \E i \in 1..Len(store) :
                /\ store[i].Key = k
                /\ store[i].IsDeleteMarker
                /\ store[i].VersionId = last'.versionId
                /\ store' = RemoveAt(store, i)
                /\ last'.output = [VersionId |-> store[i].VersionId,
                                   DeleteMarker |-> TRUE]
                /\ \A before \in ListingsOf(store, k),
                      after \in ListingsOf(store', k) :
                        Range(after) = Range(before) \ {Meta(store[i])}
        /\ (ListingEnds(k) /\ last'.calls[1].outcome = "ok") =>
            /\ ~CurrentIsMarker(store, k)
            /\ last'.outcome = "threw"
            /\ last'.error = NoDeleteMarkerFound
        /\ (MarkersOf(store, k) = <<>>) => ~\E v \in VersionIds : Chose(k, v)
    ]_vars

\* C3: undeleteObject(key) that lists a key without any delete marker ends
\* there: it fails, with the no-delete-marker error when the listing
\* succeeded, sends no delete call, neither then nor later, and leaves the
\* bucket as it was.
C3_NoMarkerNoDelete ==
    [][\A k \in Keys :
        /\ (ListingEnds(k) /\ MarkersOf(store, k) = <<>>) =>
            /\ last'.outcome = "threw"
            /\ last'.calls[1].outcome = "ok" => last'.error = NoDeleteMarkerFound
            /\ \A c \in Range(last'.calls) : c.cmd # "DeleteObject"
            /\ store' = store
            /\ inflight' = inflight
        /\ (\E v \in VersionIds : Chose(k, v)) => MarkersOf(store, k) # <<>>
    ]_vars

\* C3 witness: undelete refused on a key that has versions but no marker.
C3_Witness ==
    /\ last.op = "undeleteObject" /\ Threw
    /\ last.error = NoDeleteMarkerFound
    /\ MarkersOf(store, last.key) = <<>>
    /\ Readable(store, last.key)
    /\ Len(last.calls) = 1

\* C5: undeleteObject(key) that lists, successfully, a key whose current
\* entry is not a delete marker (the key has no entry, or a version on top,
\* such as one uploaded after an older delete marker) fails with the
\* no-delete-marker error: it ends at its listing, chooses no marker, sends
\* no delete call and leaves the bucket as it was.
C5_FailsWithoutActiveMarker ==
    [][\A k \in Keys :
        /\ (StepOf("undeleteObject", k) /\ last'.calls[1].outcome = "ok"
                /\ ~CurrentIsMarker(store, k)) =>
            /\ last'.outcome = "threw"
            /\ last'.error = NoDeleteMarkerFound
            /\ last'.calls = <<Call("ListObjectVersions", k, NoVid, "ok")>>
            /\ store' = store
            /\ inflight' = inflight
        /\ (\E v \in VersionIds : Chose(k, v)) => CurrentIsMarker(store, k)
    ]_vars

\* C5 witness: undelete refused on a key that holds a delete marker and, on
\* top of it, a version uploaded later; both are still stored.
C5_Witness ==
    /\ last.op = "undeleteObject" /\ Threw
    /\ last.error = NoDeleteMarkerFound
    /\ Len(last.calls) = 1
    /\ Readable(store, last.key)
    /\ \E e \in Range(MarkersOf(store, last.key)) :
            e.VersionId < Current(store, last.key).VersionId

\* C6: isVersioningEnabled() returns true exactly when the backend reports
\* the status "Enabled", false for every other status (absent, "Suspended",
\* another spelling), and the status endpoint answers {enabled} with it.
C6_EnabledIffStatusEnabled ==
    (last.op = "isVersioningEnabled" /\ Returned) =>
        /\ last.enabled <=> (last.status = "Enabled")
        /\ last.status \in {"Suspended", "undefined", "enabled"} => ~last.enabled
        /\ last.reply = [enabled |-> (last.status = "Enabled")]

\* C6 witness: the backend reported "Suspended" and the answer was false.
C6_Witness ==
    /\ last.op = "isVersioningEnabled" /\ Returned
    /\ last.status = "Suspended"
    /\ last.reply = [enabled |-> FALSE]

\* C7: a successful uploadFile(body, k) makes body the content of k's
\* current version, and downloadFile(k), as long as that version is k's
\* current entry (no later write or delete on k), never misses the object
\* and returns exactly body: the chunks of the response stream joined in
\* arrival order.
C7_RoundTrip ==
    [][\A k \in Keys :
        /\ (StepOf("uploadFile", k) /\ last'.outcome = "returned") =>
            /\ Readable(store', k)
            /\ Current(store', k).Body = last'.file
            /\ Current(store', k).VersionId = last'.output.VersionId
        /\ (StepOf("downloadFile", k) /\ Readable(store, k)) =>
            /\ last'.outcome = "returned" =>
                /\ last'.buffer = Current(store, k).Body
                /\ BufferConcat(last'.chunks) = last'.buffer
            /\ last'.outcome = "threw" =>
                last'.error \in BackendErrors \cup {StreamError}
    ]_vars

\* C7 witness: a download, in two chunks, of the body uploaded last to a
\* key that also has an older version of another content.
C7_Witness ==
    /\ last.op = "downloadFile" /\ Returned
    /\ Len(last.chunks) = 2
    /\ last.buffer = <<1, 2>>
    /\ Current(store, last.key).Body = <<1, 2>>
    /\ \E e \in Range(EntriesOf(store, last.key)) : e.Body = <<7>>

ResultBlank ==
    /\ last.buffer = <<>>
    /\ last.chunks = <<>>
    /\ last.output = NoOutput
    /\ last.enabled = FALSE
    /\ (last.op # "undeleteObject" => last.entries = <<>>)

\* C8: every adapter operation makes a single attempt: a failed backend
\* call is the operation's last call, no command is sent twice, and the
\* operation throws that call's error unchanged and returns no result.
C8_SingleAttemptFailFast ==
    (last.op # "none") =>
        LET n == Len(last.calls) IN
        /\ n >= 1
        /\ \A i \in 1..(n - 1) : last.calls[i].outcome = "ok"
        /\ \A i \in 1..n, j \in 1..n :
                i # j => last.calls[i].cmd # last.calls[j].cmd
        /\ last.calls[n].outcome # "ok" =>
            /\ Threw
            /\ last.error = last.calls[n].outcome
            /\ ResultBlank

\* C8 witness: undeleteObject whose version-targeted delete failed.
C8_Witness ==
    /\ last.op = "undeleteObject" /\ Threw
    /\ Len(last.calls) = 2
    /\ last.calls[2].cmd = "DeleteObject"
    /\ last.calls[2].outcome = "NetworkError"
    /\ last.error = "NetworkError"

\* C9: constructing the adapter fails, and no client is created, whenever
\* any of the four configuration values is absent; it succeeds only when
\* all four are present.
C9_AllFourRequired ==
    (pc # "new") =>
        ((s3Client = "client" /\ pc # "failed") <=> \A k \in ConfigKeys : env[k])

\* C10: every failure is logged at error level exactly once, also a backend
\* failure inside undeleteObject (in its listing or in its delete).
C10_LoggedExactlyOnce ==
    /\ (pc = "failed") => ctorLogs = 1
    /\ (last.op # "none" /\ Threw) => last.errorLogs = 1

\* the operations that only read, and the backend commands that change
\* nothing
ReadOperations ==
    {"downloadFile", "getObjectVersion", "getCurrentObjectVersion",
     "getObjectVersionWithMetadata", "listObjects", "listObjectVersions",
     "listObjectVersionsForKey", "isVersioningEnabled"}

ReadCommands ==
    {"GetObject", "ListObjectsV2", "ListObjectVersions", "GetBucketVersioning"}

\* C11: in every step, an entry of the bucket disappears (or changes) only
\* in deleteObjectVersion or undeleteObject, through a successful
\* DeleteObject call that names a version id, and then exactly the entry
\* of that key and version id goes; a successful uploadFile appends one
\* version and a successful deleteObjectWithMarker appends one delete marker
\* whose version id it returns, both keeping every existing entry; a failed
\* write keeps the bucket; the read operations send only read commands and
\* keep the bucket.
C11_OnlyTargetedDeleteRemoves ==
    [][/\ (\E i \in 1..Len(store) : store[i] \notin Range(store')) =>
            /\ last'.op \in {"deleteObjectVersion", "undeleteObject"}
            /\ \E c \in Range(last'.calls) :
                /\ c.cmd = "DeleteObject"
                /\ c.VersionId # NoVid
                /\ c.outcome = "ok"
                /\ store' = WithoutVersion(store, c.Key, c.VersionId)
                /\ Len(store') = Len(store) - 1
       /\ \A k \in Keys :
            /\ (StepOf("uploadFile", k) /\ last'.outcome = "returned") =>
                /\ Len(store') = Len(store) + 1
                /\ SubSeq(store', 1, Len(store)) = store
                /\ store'[Len(store')].Key = k
                /\ ~store'[Len(store')].IsDeleteMarker
            /\ (StepOf("deleteObjectWithMarker", k)
                    /\ last'.outcome = "returned") =>
                /\ Len(store') = Len(store) + 1
                /\ SubSeq(store', 1, Len(store)) = store
                /\ store'[Len(store')].Key = k
                /\ store'[Len(store')].IsDeleteMarker
                /\ store'[Len(store')].VersionId = last'.output.VersionId
                /\ \A i \in 1..Len(store) :
                        store[i].VersionId # last'.output.VersionId
       /\ (last'.op \in {"uploadFile", "deleteObjectWithMarker"}
                /\ vars' # vars /\ last'.outcome = "threw") => store' = store
       /\ (last'.op \in ReadOperations /\ vars' # vars) =>
            /\ store' = store
            /\ \A c \in Range(last'.calls) : c.cmd \in ReadCommands
      ]_vars

\* C11 witness: deleteObjectWithMarker on a key with a version returned the
\* version id of the marker it added on top; the version is still stored.
C11_Witness ==
    /\ last.op = "deleteObjectWithMarker" /\ Returned
    /\ Len(EntriesOf(store, last.key)) >= 2
    /\ Current(store, last.key).IsDeleteMarker
    /\ Current(store, last.key).VersionId = last.output.VersionId
    /\ ~EntriesOf(store, last.key)[1].IsDeleteMarker
    /\ last.calls = <<Call("DeleteObject", last.key, NoVid, "ok")>>

\* C12: when its backend call succeeds, listObjects() returns the Contents
\* list of the response as it is (same entries, same order) and
\* listObjectVersions() returns the Versions list of the response as it is;
\* each returns the empty list, and does not fail, when the response has
\* no such list.
C12_ListsPassedThrough ==
    /\ (last.op = "listObjects" /\ last.calls[1].outcome = "ok") =>
        /\ Returned
        /\ last.response.Contents = {} => last.entries = <<>>
        /\ \A l \in last.response.Contents : last.entries = l
    /\ (last.op = "listObjectVersions" /\ last.calls[1].outcome = "ok") =>
        /\ Returned
        /\ last.response.Versions = {} => last.entries = <<>>
        /\ \A l \in last.response.Versions : last.entries = l

\* C12 witness: listObjectVersions returned the two versions of a response
\* that also carried a delete marker, in the backend's order, which is not
\* the order of storage.
C12_Witness ==
    /\ last.op = "listObjectVersions" /\ Returned
    /\ last.response.DeleteMarkers # {}
    /\ Len(last.entries) = 2
    /\ last.entries[1].VersionId > last.entries[2].VersionId
    /\ last.response.Versions = {last.entries}


\* the time an entry is to be ordered by: its date, zero when it has none
SortKey(e) == IF e.LastModified = NoTime THEN 0 ELSE e.LastModified

\* where e stands in a list of distinct entries
PositionIn(list, e) == CHOOSE i \in 1..Len(list) : list[i] = e

\* the listed entry v shows a delete marker of the bucket
ShowsMarker(bucket, v) == IsMarkerOf(bucket, v.Key, v.VersionId)

\* C13: listObjectVersionsForKey returns the entries of the response's
\* version list followed by its delete-marker list, reordered so that dates
\* descend with an absent date counting as zero: an entry without a date
\* comes after every entry with a positive date, and entries of equal date
\* stay in the order of that concatenation, so among them versions come
\* before delete markers.
C13_MissingDateLastTiesStable ==
    (last.op = "listObjectVersionsForKey" /\ Returned) =>
        LET encountered == OrEmpty(last.response.Versions)
                                \o OrEmpty(last.response.DeleteMarkers)
            out == last.entries
        IN /\ Len(out) = Len(encountered)
           /\ Range(out) = Range(encountered)
           /\ \A i \in 1..Len(out), j \in 1..Len(out) :
                i < j =>
                    /\ SortKey(out[i]) >= SortKey(out[j])
                    /\ out[i].LastModified = NoTime =>
                            out[j].LastModified \in {NoTime, 0}
                    /\ SortKey(out[i]) = SortKey(out[j]) =>
                        /\ PositionIn(encountered, out[i])
                                < PositionIn(encountered, out[j])
                        /\ ShowsMarker(store, out[i]) =>
                                ShowsMarker(store, out[j])

\* C13 witness: the response's first version has no date and is returned
\* last; the two entries before it have the same positive date, the version
\* ahead of the delete marker although the marker is the older entry.
C13_Witness ==
    /\ last.op = "listObjectVersionsForKey" /\ Returned
    /\ Len(last.entries) = 3
    /\ OrEmpty(last.response.Versions)[1].LastModified = NoTime
    /\ last.entries[3] = OrEmpty(last.response.Versions)[1]
    /\ last.entries[1].LastModified = last.entries[2].LastModified
    /\ last.entries[1].LastModified > 0
    /\ ~ShowsMarker(store, last.entries[1])
    /\ ShowsMarker(store, last.entries[2])
    /\ last.entries[2].VersionId < last.entries[1].VersionId

\* C14: whatever uploads, marker deletes and undeletes came before or run
\* meanwhile, the delete marker undeleteObject(key) chooses is a stored
\* delete marker of exactly key, and every DeleteObject call it sends (it
\* sends at most one) names key and that marker's version id; the call
\* removes nothing else: every data version stays, and so does every entry
\* of another key, also of one that starts with key and that the prefix
\* listing returned.  (When another request removed the marker meanwhile,
\* the call removes nothing.)
C14_UndeleteTargetsOwnMarker ==
    [][\A k \in Keys :
        /\ \A v \in VersionIds : Chose(k, v) => IsMarkerOf(store, k, v)
        /\ StepOf("undeleteObject", k) =>
            LET deletes == SelectSeq(last'.calls,
                                     LAMBDA c : c.cmd = "DeleteObject")
            IN /\ Len(deletes) <= 1
               /\ \A c \in Range(deletes) :
                    /\ c.Key = k
                    /\ c.VersionId = last'.versionId
                    /\ \A e \in Range(store) :
                        e.VersionId = c.VersionId =>
                            (e.Key = k /\ e.IsDeleteMarker)
               /\ \A e \in Range(store) :
                    (~e.IsDeleteMarker \/ e.Key # k) => e \in Range(store')
               /\ Len(store') >= Len(store) - 1
    ]_vars

\* C14 witness: undeleteObject(key) removed the delete marker of key; an
\* older delete marker of a longer key, which its prefix listing returned
\* as well, and the data version of key are still stored.
C14_Witness ==
    /\ last.op = "undeleteObject" /\ Returned
    /\ last.output = [VersionId |-> last.versionId, DeleteMarker |-> TRUE]
    /\ \E e \in Range(store) :
        /\ e.IsDeleteMarker
        /\ e.Key # last.key /\ StartsWith(e.Key, last.key)
        /\ e.VersionId < last.versionId
    /\ \E e \in Range(store) : e.Key = last.key /\ ~e.IsDeleteMarker
    /\ last.calls[2].Key = last.key
====
